---------------------------- MODULE Spec2Model ----------------------------
(***************************************************************************)
(* A model of akbootimg (src/akbootimg.c): extraction, update and creation *)
(* of Android boot images.                                                 *)
(*                                                                         *)
(* Units.  The image file is a sequence of cells.  One cell stands for one *)
(* byte of payload; the encoded header record (sizeof(boot_img_hdr)) takes *)
(* HdrLen cells.  `unsigned` is WordBits wide, so every unsigned           *)
(* expression of the source is reduced modulo UMOD here.                   *)
(*                                                                         *)
(* Three specifications share the module:                                  *)
(*   Spec        one invocation of main() (extract, update or create) on a *)
(*               regular file, optionally followed by the reassembly of an *)
(*               extracted image;                                          *)
(*   LayoutSpec  the page arithmetic of the source applied to header       *)
(*               values drawn from both ends of the unsigned range;        *)
(*   ConfigSpec  update_header_entry applied to config lines.              *)
(***************************************************************************)
EXTENDS Integers, Sequences, FiniteSets, TLC

VARIABLES
  cmd,      \* the command parse_args returned: "extract", "update", "create"
  step,     \* index of the next call in main()'s case for cmd
  status,   \* "run", "done", "usage", "crashed" or "abort_<kind>"
  disk,     \* the image file named on the command line: [exists, data]
  disk0,    \* that file as it was before the first invocation
  args,     \* the files and config text named on the command line
  img,      \* the t_akbootimg object
  out,      \* the files extraction writes
  io,       \* the accesses to the image stream so far, in program order
  pend,     \* the last fwrite still held in the stream buffer at ftruncate
  chained,  \* TRUE while the update that reassembles an extracted image runs
  lay,      \* LayoutSpec: header values and what the arithmetic made of them
  cfg       \* ConfigSpec: the header being edited and the last line's fate

vars == <<cmd, step, status, disk, disk0, args, img, out, io, pend, chained, lay, cfg>>

----------------------------------------------------------------------------
(* Bounds of the model. *)

WordBits == 5    \* width of `unsigned` (32 in the build, scaled)
HdrLen == 2      \* cells taken by the encoded header (sizeof(boot_img_hdr), scaled)
BootArgsSize == 4 \* capacity of header.cmdline (BOOT_ARGS_SIZE, scaled)
MaxSeg == 2      \* largest segment of a source image
MaxFile == 2     \* largest replacement file
MaxPage == 3     \* largest page size of a source image or a pagesize directive
MaxTrail == 1    \* most cells a source image holds beyond its layout
MaxLay == 2      \* LayoutSpec: distance of the drawn values from either end of the range
MaxLines == 2    \* ConfigSpec: lines applied in one run

UMOD == 2 ^ WordBits

\* conversion to `unsigned`
U(x) == x % UMOD

Min(a, b) == IF a < b THEN a ELSE b
Max(a, b) == IF a > b THEN a ELSE b

----------------------------------------------------------------------------
(* C strings are sequences of one-character strings.                       *)

S_cmdline     == <<"c","m","d","l","i","n","e">>
S_bootsize    == <<"b","o","o","t","s","i","z","e">>
S_pagesize    == <<"p","a","g","e","s","i","z","e">>
S_kerneladdr  == <<"k","e","r","n","e","l","a","d","d","r">>
S_ramdiskaddr == <<"r","a","m","d","i","s","k","a","d","d","r">>
S_secondaddr  == <<"s","e","c","o","n","d","a","d","d","r">>
S_tagsaddr    == <<"t","a","g","s","a","d","d","r">>

NL == "\n"
Blanks == {" ", "\t"}

\* strspn(s + i - 1, set): length of the run of characters of `set` at position i
RECURSIVE Strspn(_, _, _)
Strspn(s, i, set) ==
  IF i <= Len(s) /\ s[i] \in set THEN 1 + Strspn(s, i + 1, set) ELSE 0

\* strcspn(s + i - 1, set): length of the run of characters outside `set` at position i
RECURSIVE Strcspn(_, _, _)
Strcspn(s, i, set) ==
  IF i <= Len(s) /\ s[i] \notin set THEN 1 + Strcspn(s, i + 1, set) ELSE 0

\* strchr(s, c) as a position, 0 when absent
RECURSIVE StrchrFrom(_, _, _)
StrchrFrom(s, i, c) ==
  IF i > Len(s) THEN 0 ELSE IF s[i] = c THEN i ELSE StrchrFrom(s, i + 1, c)
Strchr(s, c) == StrchrFrom(s, 1, c)

Take(s, n) == SubSeq(s, 1, Min(n, Len(s)))

\* strcmp(a, b) == 0
StrcmpEq(a, b) == a = b
\* strncmp(a, b, n) == 0: the first n characters agree, a terminator counting as one
StrncmpEq(a, b, n) == Take(a, n) = Take(b, n)

DigitVal(c) ==
  CASE c = "0" -> 0 [] c = "1" -> 1 [] c = "2" -> 2 [] c = "3" -> 3 [] c = "4" -> 4
    [] c = "5" -> 5 [] c = "6" -> 6 [] c = "7" -> 7 [] c = "8" -> 8 [] c = "9" -> 9
    [] c \in {"a", "A"} -> 10 [] c \in {"b", "B"} -> 11 [] c \in {"c", "C"} -> 12
    [] c \in {"d", "D"} -> 13 [] c \in {"e", "E"} -> 14 [] c \in {"f", "F"} -> 15
    [] OTHER -> 99

\* the digits strtoul consumes from position i under `base`, folded into a value
RECURSIVE StrtoulDigits(_, _, _, _)
StrtoulDigits(s, i, base, acc) ==
  IF i <= Len(s) /\ DigitVal(s[i]) < base
    THEN StrtoulDigits(s, i + 1, base, U(acc * base + DigitVal(s[i])))
    ELSE acc

\* strtoul from position b, behind blanks and sign: "0x" and a hex digit
\* select base 16, a leading "0" base 8, anything else base 10
StrtoulBase(s, b) ==
  IF /\ b + 2 <= Len(s)
     /\ s[b] = "0"
     /\ s[b + 1] \in {"x", "X"}
     /\ DigitVal(s[b + 2]) < 16
    THEN StrtoulDigits(s, b + 2, 16, 0)
  ELSE IF b <= Len(s) /\ s[b] = "0" THEN StrtoulDigits(s, b, 8, 0)
  ELSE StrtoulDigits(s, b, 10, 0)

\* strtoul from position a, behind the blanks: an optional sign
StrtoulSign(s, a) ==
  IF a <= Len(s) /\ s[a] = "-" THEN U(UMOD - StrtoulBase(s, a + 1))
  ELSE IF a <= Len(s) /\ s[a] = "+" THEN StrtoulBase(s, a + 1)
  ELSE StrtoulBase(s, a)

\* (unsigned) strtoul(s, NULL, 0): blanks, a sign, the base prefix, the digits;
\* text that is no number gives 0
Strtoul0(s) == StrtoulSign(s, 1 + Strspn(s, 1, Blanks \cup {NL}))

HexDigit(d) ==
  CASE d = 0 -> "0" [] d = 1 -> "1" [] d = 2 -> "2" [] d = 3 -> "3" [] d = 4 -> "4"
    [] d = 5 -> "5" [] d = 6 -> "6" [] d = 7 -> "7" [] d = 8 -> "8" [] d = 9 -> "9"
    [] d = 10 -> "a" [] d = 11 -> "b" [] d = 12 -> "c" [] d = 13 -> "d"
    [] d = 14 -> "e" [] OTHER -> "f"

\* printf("%x", n)
RECURSIVE FmtHex(_)
FmtHex(n) == IF n < 16 THEN <<HexDigit(n)>> ELSE FmtHex(n \div 16) \o <<HexDigit(n % 16)>>

\* printf("%u", n), used to write the numbers of config directives
RECURSIVE FmtDec(_)
FmtDec(n) == IF n < 10 THEN <<HexDigit(n)>> ELSE FmtDec(n \div 10) \o <<HexDigit(n % 10)>>

----------------------------------------------------------------------------
(* The header record and the image file.                                   *)

\* a boot_img_hdr; magic is TRUE when header.magic holds BOOT_MAGIC
Hdr(mg, ks, rs, ss, ps) ==
  [magic |-> mg, kernel_size |-> ks, kernel_addr |-> 0, ramdisk_size |-> rs,
   ramdisk_addr |-> 0, second_size |-> ss, second_addr |-> 0, tags_addr |-> 0,
   page_size |-> ps, cmdline |-> <<>>]

\* the record calloc leaves: every byte zero
ZeroHdr == Hdr(FALSE, 0, 0, 0, 0)

\* A cell of the file: a payload byte b >= 0, or the i-th cell of an encoded
\* header (b = -i), the first of which carries the record.
Byte(v) == [hd |-> ZeroHdr, b |-> v]
Zero == Byte(0)
Zeros(n) == [i \in 1..n |-> Zero]

\* fwrite(&img->header, sizeof(img->header), 1, stream): the cells written
EncodeHeader(h) == [i \in 1..HdrLen |-> [hd |-> IF i = 1 THEN h ELSE ZeroHdr, b |-> 0 - i]]

\* fread(&img->header, sizeof(boot_img_hdr), 1, stream): the record read back
\* from HdrLen cells; cells that are no encoded header give a record without magic
DecodeHeader(cells) ==
  IF cells = EncodeHeader(cells[1].hd) THEN cells[1].hd ELSE ZeroHdr

\* fseek(off) and fread(buf, n, 1, stream) == 1: n > 0 and n cells lie at off
CanRead(f, off, n) == n > 0 /\ off + n <= Len(f)
ReadAt(f, off, n) == SubSeq(f, off + 1, off + n)

\* fseek(off) and fwrite(data): the file afterwards; a gap reads as zeros
WriteAt(f, off, data) ==
  LET end == Max(Len(f), off + Len(data))
  IN [i \in 1..end |->
        IF i > off /\ i <= off + Len(data) THEN data[i - off]
        ELSE IF i <= Len(f) THEN f[i]
        ELSE Zero]

\* ftruncate(fd, n)
Truncate(f, n) == [i \in 1..n |-> IF i <= Len(f) THEN f[i] ELSE Zero]

----------------------------------------------------------------------------
(* The page arithmetic, one definition for each place the source does it.  *)

\* (size + page_size - 1) / page_size in unsigned arithmetic
Pages(size, psize) == U(size + psize - 1) \div psize

\* check_boot_img_header: total_size
CheckTotalSize(h) ==
  LET page_size == h.page_size
      n == Pages(h.kernel_size, page_size)
      m == Pages(h.ramdisk_size, page_size)
      o == Pages(h.second_size, page_size)
  IN U((1 + n + m + o) * page_size)

\* update_images: roffset and soffset, from the sizes the header held on entry
\* and the page size it holds after the config was applied
CarryRoffset(h) ==
  LET page_size == h.page_size
      n == Pages(h.kernel_size, page_size)
  IN U((1 + n) * page_size)

CarrySoffset(h) ==
  LET page_size == h.page_size
      n == Pages(h.kernel_size, page_size)
      m == Pages(h.ramdisk_size, page_size)
  IN U((1 + n + m) * page_size)

\* update_images: total_size, from the header after the segments were resolved
UpdateTotalSize(h) ==
  LET page_size == h.page_size
      n == Pages(h.kernel_size, page_size)
      m == Pages(h.ramdisk_size, page_size)
      o == Pages(h.second_size, page_size)
  IN U((1 + n + m + o) * page_size)

\* write_bootimg: the kernel follows the header page without a seek
WriteKernelOffset(h) ==
  U(HdrLen + U(h.page_size - HdrLen))

\* write_bootimg: fseek(stream, (1+n)*psize, SEEK_SET)
WriteRamdiskOffset(h) ==
  LET psize == h.page_size
      n == Pages(h.kernel_size, psize)
  IN U((1 + n) * psize)

\* write_bootimg: fseek(stream, (1+n+m)*psize, SEEK_SET)
WriteSecondOffset(h) ==
  LET psize == h.page_size
      n == Pages(h.kernel_size, psize)
      m == Pages(h.ramdisk_size, psize)
  IN U((1 + n + m) * psize)

\* write_bootimg: psize - (size % psize), the padding written after a segment
WritePadLen(size, psize) == U(psize - (size % psize))

\* extract_kernel: fseek(img->stream, psize, SEEK_SET)
ExtractKernelOffset(h) == h.page_size

\* extract_ramdisk: roffset
ExtractRamdiskOffset(h) ==
  LET psize == h.page_size
      n == Pages(h.kernel_size, psize)
  IN U((1 + n) * psize)

\* extract_second: soffset
ExtractSecondOffset(h) ==
  LET psize == h.page_size
      n == U(h.ramdisk_size + h.kernel_size + psize - 1) \div psize
  IN U((1 + n) * psize)

\* extract_kernel, extract_ramdisk, extract_second: the size given to malloc
\* for the buffer that fread fills with the segment
ExtractKernelMalloc(h) == h.kernel_size
ExtractRamdiskMalloc(h) == h.ramdisk_size
ExtractSecondMalloc(h) == h.kernel_size

----------------------------------------------------------------------------
(* The t_akbootimg object and the config parser.                           *)

\* a segment buffer: ptr is FALSE for NULL, cap the size given to malloc
NullBuf == [ptr |-> FALSE, cap |-> 0, data |-> <<>>]
Buf(n, cells) == [ptr |-> TRUE, cap |-> n, data |-> cells]

\* a page that holds the header with room to spare (2048 in the build)
DefaultPageSize == HdrLen + 1

\* new_bootimg: calloc, then the magic and the default page size
NewBootimg ==
  [size |-> 0, is_blkdev |-> FALSE,
   header |-> Hdr(TRUE, 0, 0, 0, DefaultPageSize),
   kernel |-> NullBuf, ramdisk |-> NullBuf, second |-> NullBuf]

\* update_header_entry: the line up to its '\n'
CutLine(cmdtext) ==
  IF Strchr(cmdtext, NL) > 0 THEN SubSeq(cmdtext, 1, Strchr(cmdtext, NL) - 1) ELSE cmdtext

\* update_header_entry, with p behind the token and its blanks: eq is FALSE
\* when *p is not '=', value starts behind the '=' and its blanks
SplitAtEq(s, token, endtoken, p) ==
  IF p <= Len(s) /\ s[p] = "="
    THEN [eq |-> TRUE, token |-> SubSeq(s, token, endtoken - 1),
          value |-> SubSeq(s, (p + 1) + Strspn(s, p + 1, Blanks), Len(s))]
    ELSE [eq |-> FALSE, token |-> SubSeq(s, token, endtoken - 1), value |-> <<>>]

\* update_header_entry: endtoken is where the token ends, at a blank or '='
SplitAtEnd(s, token, endtoken) ==
  SplitAtEq(s, token, endtoken, endtoken + Strspn(s, endtoken, Blanks))

\* update_header_entry: token is where the token starts, behind the blanks
SplitAtToken(s, token) == SplitAtEnd(s, token, token + Strcspn(s, token, Blanks \cup {"="}))

\* update_header_entry: the token and the value the line splits into
SplitEntry(cmdtext) == SplitAtToken(CutLine(cmdtext), 1 + Strspn(CutLine(cmdtext), 1, Blanks))

\* update_header_entry: the branch the token selects, "" for `goto err`
EntryKey(token) ==
  IF StrcmpEq(token, S_cmdline) THEN "cmdline"
  ELSE IF StrncmpEq(token, S_bootsize, 8) THEN "bootsize"
  ELSE IF StrncmpEq(token, S_pagesize, 8) THEN "pagesize"
  ELSE IF StrncmpEq(token, S_kerneladdr, 10) THEN "kerneladdr"
  ELSE IF StrncmpEq(token, S_ramdiskaddr, 11) THEN "ramdiskaddr"
  ELSE IF StrncmpEq(token, S_secondaddr, 10) THEN "secondaddr"
  ELSE IF StrncmpEq(token, S_tagsaddr, 8) THEN "tagsaddr"
  ELSE ""

\* update_header_entry: what the selected branch does with value and valuenum;
\* [ok, img], ok FALSE when it aborts
ApplyEntry(im, key, value, valuenum) ==
  IF key = "cmdline" THEN
    IF Len(value) >= BootArgsSize
      THEN [ok |-> FALSE, img |-> im]
      ELSE [ok |-> TRUE, img |-> [im EXCEPT !.header.cmdline = value]]
  ELSE IF key = "bootsize" THEN
    IF im.is_blkdev /\ im.size # valuenum
      THEN [ok |-> FALSE, img |-> im]
      ELSE [ok |-> TRUE, img |-> [im EXCEPT !.size = valuenum]]
  ELSE IF key = "pagesize" THEN
    [ok |-> TRUE, img |-> [im EXCEPT !.header.page_size = valuenum]]
  ELSE IF key = "kerneladdr" THEN
    [ok |-> TRUE, img |-> [im EXCEPT !.header.kernel_addr = valuenum]]
  ELSE IF key = "ramdiskaddr" THEN
    [ok |-> TRUE, img |-> [im EXCEPT !.header.ramdisk_addr = valuenum]]
  ELSE IF key = "secondaddr" THEN
    [ok |-> TRUE, img |-> [im EXCEPT !.header.second_addr = valuenum]]
  ELSE IF key = "tagsaddr" THEN
    [ok |-> TRUE, img |-> [im EXCEPT !.header.tags_addr = valuenum]]
  ELSE [ok |-> FALSE, img |-> im]

\* update_header_entry on a split line
ApplySplit(im, e) ==
  IF ~e.eq THEN [ok |-> FALSE, img |-> im]
  ELSE ApplyEntry(im, EntryKey(e.token), e.value, Strtoul0(e.value))

\* update_header_entry(img, cmd): [ok, img]; ok is FALSE when it aborts
UpdateHeaderEntry(im, cmdtext) == ApplySplit(im, SplitEntry(cmdtext))

\* one getline loop of update_header: the entries of `lines` in order, until
\* one aborts
RECURSIVE ApplyLines(_, _)
ApplyLines(im, lines) ==
  IF lines = <<>> THEN [ok |-> TRUE, img |-> im]
  ELSE LET r == UpdateHeaderEntry(im, Head(lines))
       IN IF r.ok THEN ApplyLines(r.img, Tail(lines)) ELSE r

\* parse_args: strcat(config_args, argv[i]); strcat(config_args, "\n")
ConfigArgsLines(cargs) == [i \in 1..Len(cargs) |-> cargs[i] \o <<NL>>]

\* update_header: the config file's lines, then the -c arguments
UpdateHeader(im, a) ==
  LET f == ApplyLines(im, a.config_file)
  IN IF f.ok THEN ApplyLines(f.img, ConfigArgsLines(a.config_args)) ELSE f

\* write_bootimg_config: the lines written to the config file
ConfigText(h) ==
  << S_pagesize    \o <<" ", "=", " ", "0", "x">> \o FmtHex(h.page_size) \o <<NL>>,
     S_kerneladdr  \o <<" ", "=", " ", "0", "x">> \o FmtHex(h.kernel_addr) \o <<NL>>,
     S_ramdiskaddr \o <<" ", "=", " ", "0", "x">> \o FmtHex(h.ramdisk_addr) \o <<NL>>,
     S_secondaddr  \o <<" ", "=", " ", "0", "x">> \o FmtHex(h.second_addr) \o <<NL>>,
     S_tagsaddr    \o <<" ", "=", " ", "0", "x">> \o FmtHex(h.tags_addr) \o <<NL>>,
     S_cmdline     \o <<" ", "=", " ">> \o h.cmdline \o <<NL>> >>

----------------------------------------------------------------------------
(* The functions main() calls, as operators on the object and the file.    *)

\* a file named on the command line, or written by extraction
NoArg == [given |-> FALSE, data |-> <<>>]
File(cells) == [given |-> TRUE, data |-> cells]

\* an access to the image stream
Ev(o, at, n) == [op |-> o, off |-> at, len |-> n]

\* check_boot_img_header: "ok" when it returns 0, else the test that failed
CheckBootImgHeader(im) ==
  LET h == im.header
  IN IF ~h.magic THEN "magic"
     ELSE IF h.kernel_size = 0 THEN "kernel"
     ELSE IF h.page_size = 0 THEN "page"
     ELSE IF CheckTotalSize(h) > im.size THEN "size"
     ELSE "ok"

\* the status an abort of check_boot_img_header's caller leaves
CheckStatus(why) == IF why = "size" THEN "abort_capacity" ELSE "abort_format"

\* update_images: fopen, fstat, malloc and fread of a replacement file;
\* fread(k, size, 1, stream) returns 1 only for a file that is not empty
CanLoad(arg) == U(Len(arg.data)) > 0

\* update_images(img) on image file f; readable is FALSE for a stream opened "w".
\* [status, img, ev]: status is "ok" or the abort taken, ev the accesses made.
UpdateImages(im, a, f, readable) ==
  LET page_size == im.header.page_size
      ksize     == im.header.kernel_size
      rsize     == im.header.ramdisk_size
      ssize     == im.header.second_size
      roffset   == CarryRoffset(im.header)
      soffset   == CarrySoffset(im.header)
      \* the kernel
      kOk  == a.kernel.given => CanLoad(a.kernel)
      im1  == IF a.kernel.given
                THEN [im EXCEPT !.header.kernel_size = U(Len(a.kernel.data)),
                                !.kernel = Buf(U(Len(a.kernel.data)), a.kernel.data)]
                ELSE im
      ev1  == IF a.kernel.given THEN <<Ev("load_kernel", 0, Len(a.kernel.data))>> ELSE <<>>
      \* the ramdisk: from its file, or from the image when the kernel was replaced
      rCarry == ~a.ramdisk.given /\ im1.kernel.ptr
      rOk  == IF a.ramdisk.given THEN CanLoad(a.ramdisk)
              ELSE IF rCarry THEN readable /\ CanRead(f, roffset, rsize)
              ELSE TRUE
      im2  == IF a.ramdisk.given
                THEN [im1 EXCEPT !.header.ramdisk_size = U(Len(a.ramdisk.data)),
                                 !.ramdisk = Buf(U(Len(a.ramdisk.data)), a.ramdisk.data)]
              ELSE IF rCarry
                THEN [im1 EXCEPT !.ramdisk = Buf(rsize, ReadAt(f, roffset, rsize))]
              ELSE im1
      ev2  == ev1 \o (IF a.ramdisk.given THEN <<Ev("load_ramdisk", 0, Len(a.ramdisk.data))>>
                      ELSE IF rCarry THEN <<Ev("carry_ramdisk", roffset, rsize)>>
                      ELSE <<>>)
      \* the second stage: from its file, or from the image when a ramdisk is held
      sCarry == ~a.second.given /\ im2.ramdisk.ptr /\ im2.header.second_size # 0
      sOk  == IF a.second.given THEN CanLoad(a.second)
              ELSE IF sCarry THEN readable /\ CanRead(f, soffset, ssize)
              ELSE TRUE
      im3  == IF a.second.given
                THEN [im2 EXCEPT !.header.second_size = U(Len(a.second.data)),
                                 !.second = Buf(U(Len(a.second.data)), a.second.data)]
              ELSE IF sCarry
                THEN [im2 EXCEPT !.second = Buf(ssize, ReadAt(f, soffset, ssize))]
              ELSE im2
      ev3  == ev2 \o (IF a.second.given THEN <<Ev("load_second", 0, Len(a.second.data))>>
                      ELSE IF sCarry THEN <<Ev("carry_second", soffset, ssize)>>
                      ELSE <<>>)
      \* the layout of the resolved header against the declared size
      total_size == UpdateTotalSize(im3.header)
      ev4  == ev3 \o <<Ev("validate", 0, total_size)>>
  IN IF page_size = 0 THEN [status |-> "abort_format", img |-> im, ev |-> <<>>]
     ELSE IF ~kOk THEN [status |-> "abort_io", img |-> im, ev |-> ev1]
     ELSE IF ~rOk THEN [status |-> "abort_io", img |-> im1, ev |-> ev2]
     ELSE IF ~sOk THEN [status |-> "abort_io", img |-> im2, ev |-> ev3]
     ELSE IF im3.size = 0
       THEN [status |-> "ok", img |-> [im3 EXCEPT !.size = total_size], ev |-> ev4]
     ELSE IF total_size > im3.size
       THEN [status |-> "abort_oversize", img |-> im3, ev |-> ev4]
     ELSE [status |-> "ok", img |-> im3, ev |-> ev4]

\* fwrite(buf, n, 1, stream) reads n bytes of buf: defined only for a buffer
\* that is not NULL and holds n bytes
CanWriteFrom(buf, n) == buf.ptr /\ buf.cap >= n

\* write_bootimg: the fwrite calls in program order, each with the stream
\* position it is made at.  Padding is psize zero bytes, of which the call
\* writes the first `len`.
WriteCalls(im) ==
  LET h     == im.header
      psize == h.page_size
      hpad  == U(psize - HdrLen)
      w0 == << [op |-> "write_header", off |-> 0, data |-> EncodeHeader(h)],
               [op |-> "write_pad", off |-> HdrLen, data |-> Zeros(hpad)] >>
      kpad == WritePadLen(h.kernel_size, psize)
      w1 == IF im.kernel.ptr
              THEN w0 \o << [op |-> "write_kernel", off |-> WriteKernelOffset(h),
                             data |-> Take(im.kernel.data, h.kernel_size)],
                            [op |-> "write_pad", off |-> WriteKernelOffset(h) + h.kernel_size,
                             data |-> Zeros(kpad)] >>
              ELSE w0
      rpad == WritePadLen(h.ramdisk_size, psize)
      w2 == IF im.ramdisk.ptr
              THEN w1 \o << [op |-> "write_ramdisk", off |-> WriteRamdiskOffset(h),
                             data |-> Take(im.ramdisk.data, h.ramdisk_size)],
                            [op |-> "write_pad", off |-> WriteRamdiskOffset(h) + h.ramdisk_size,
                             data |-> Zeros(rpad)] >>
              ELSE w1
      spad == WritePadLen(h.second_size, psize)
      w3 == IF h.second_size # 0
              THEN w2 \o << [op |-> "write_second", off |-> WriteSecondOffset(h),
                             data |-> Take(im.second.data, h.second_size)],
                            [op |-> "write_pad", off |-> WriteSecondOffset(h) + h.second_size,
                             data |-> Zeros(spad)] >>
              ELSE w2
  IN w3

\* write_bootimg: the number of fwrite calls made before one whose source
\* buffer does not hold what it is asked to write (undefined behaviour), or
\* -1 when every call is defined
FaultAt(im) ==
  LET h == im.header
  IN IF h.page_size < HdrLen THEN 1
     ELSE IF im.kernel.ptr /\ ~CanWriteFrom(im.kernel, h.kernel_size) THEN 2
     ELSE IF im.ramdisk.ptr /\ ~CanWriteFrom(im.ramdisk, h.ramdisk_size)
       THEN (IF im.kernel.ptr THEN 4 ELSE 2)
     ELSE IF h.second_size # 0 /\ ~CanWriteFrom(im.second, h.second_size)
       THEN 2 + (IF im.kernel.ptr THEN 2 ELSE 0) + (IF im.ramdisk.ptr THEN 2 ELSE 0)
     ELSE 0 - 1

\* the file after the first n of the calls reached it
RECURSIVE ApplyWrites(_, _, _)
ApplyWrites(f, calls, n) ==
  IF n = 0 THEN f
  ELSE WriteAt(ApplyWrites(f, calls, n - 1), calls[n].off, calls[n].data)

WriteEvents(calls, n) == [i \in 1..n |-> Ev(calls[i].op, calls[i].off, Len(calls[i].data))]

----------------------------------------------------------------------------
(* The inputs of an invocation.                                            *)

\* n distinct payload bytes; each segment draws from a range of its own, so a
\* byte found in the image tells where it came from
Payload(base, n) == [i \in 1..n |-> Byte(base + i)]

\* zero cells up to the next multiple of psize
PadTo(n, psize) == Zeros((psize - (n % psize)) % psize)

\* an image laid out as the format says, with `trail` cells after its last page
MkImage(h, trail) ==
  EncodeHeader(h) \o Zeros(h.page_size - HdrLen)
    \o Payload(10, h.kernel_size) \o PadTo(h.kernel_size, h.page_size)
    \o Payload(20, h.ramdisk_size) \o PadTo(h.ramdisk_size, h.page_size)
    \o Payload(30, h.second_size) \o PadTo(h.second_size, h.page_size)
    \o Payload(90, trail)

PageSizes == HdrLen..MaxPage

ValidHeaders ==
  {Hdr(TRUE, k, r, s, ps) : k \in 1..MaxSeg, r \in 0..MaxSeg, s \in 0..MaxSeg, ps \in PageSizes}

ValidImages == {MkImage(h, trail) : h \in ValidHeaders, trail \in {0, MaxTrail}}

\* files read_header refuses: no magic, no kernel, no page size, a layout
\* larger than the file, a file shorter than the header record
BrokenImages ==
  LET h == Hdr(TRUE, 1, 1, 0, HdrLen)
      f == MkImage(h, 0)
  IN { MkImage([h EXCEPT !.magic = FALSE], 0),
       MkImage([h EXCEPT !.kernel_size = 0], 0),
       EncodeHeader([h EXCEPT !.page_size = 0]) \o Payload(10, 1),
       SubSeq(f, 1, Len(f) - 1),
       SubSeq(f, 1, HdrLen - 1) }

OnDisk(cells) == [exists |-> TRUE, data |-> cells]
Absent == [exists |-> FALSE, data |-> <<>>]

\* replacement files: the kernel's may be empty
KernelArgs  == {NoArg} \cup {File(Payload(40, n)) : n \in 0..MaxFile}
RamdiskArgs == {NoArg} \cup {File(Payload(50, n)) : n \in 1..MaxFile}
SecondArgs  == {NoArg} \cup {File(Payload(60, n)) : n \in 1..MaxFile}

Directive(key, n) == key \o <<"=">> \o FmtDec(n)

\* the config given with -c (and, in one choice, with -f as well)
ConfigChoices ==
  { [file |-> <<>>, cargs |-> <<>>] }
    \cup { [file |-> <<>>, cargs |-> <<Directive(S_pagesize, ps)>>] : ps \in (HdrLen - 1)..MaxPage }
    \cup { [file |-> <<>>, cargs |-> <<Directive(S_bootsize, b)>>] : b \in {1, 4 * MaxPage} }
    \cup { [file |-> <<Directive(S_pagesize, MaxPage) \o <<NL>>>>,
            cargs |-> <<Directive(S_pagesize, HdrLen)>>] }

NoArgs ==
  [config_file |-> <<>>, config_args |-> <<>>, kernel |-> NoArg, ramdisk |-> NoArg,
   second |-> NoArg]

ArgChoices ==
  { [config_file |-> c.file, config_args |-> c.cargs, kernel |-> k, ramdisk |-> r,
     second |-> s] : c \in ConfigChoices, k \in KernelArgs, r \in RamdiskArgs, s \in SecondArgs }

NoOut == [config |-> <<>>, kernel |-> NoArg, ramdisk |-> NoArg, second |-> NoArg]
NoPend == [any |-> FALSE, off |-> 0, data |-> <<>>]

LayIdle == [phase |-> "idle"]
CfgIdle == [phase |-> "idle"]

----------------------------------------------------------------------------
(* main(): the calls of each case, in order.                               *)

ExtractSteps ==
  <<"open_bootimg", "read_header", "write_bootimg_config", "extract_kernel",
    "extract_ramdisk", "extract_second", "exit">>

\* the calls of the update case with write_bootimg ahead of update_images,
\* an order main() does not have
UpdateStepsWriteFirst ==
  <<"open_bootimg", "read_header", "update_header", "write_bootimg", "update_images",
    "exit">>

UpdateSteps ==
  <<"open_bootimg", "read_header", "update_header", "update_images", "write_bootimg",
    "exit">>

CreateSteps ==
  <<"check_if_block_device", "open_bootimg", "update_header", "update_images",
    "check_boot_img_header", "write_bootimg", "exit">>

Steps(c) ==
  IF c = "extract" THEN ExtractSteps ELSE IF c = "update" THEN UpdateSteps ELSE CreateSteps

At(name) == status = "run" /\ step <= Len(Steps(cmd)) /\ Steps(cmd)[step] = name

Init ==
  /\ \E start \in
         {[c |-> "extract", d |-> OnDisk(f), a |-> NoArgs] : f \in ValidImages \cup BrokenImages}
           \cup {[c |-> "extract", d |-> Absent, a |-> NoArgs]}
           \cup {[c |-> "update", d |-> OnDisk(f), a |-> a] : f \in ValidImages, a \in ArgChoices}
           \cup {[c |-> "update", d |-> OnDisk(f), a |-> NoArgs] : f \in BrokenImages}
           \cup {[c |-> "create", d |-> d, a |-> a] :
                   d \in {Absent, OnDisk(MkImage(Hdr(TRUE, 1, 1, 1, HdrLen), MaxTrail))},
                   a \in ArgChoices} :
       /\ cmd = start.c
       /\ disk = start.d
       /\ disk0 = start.d
       /\ args = start.a
  /\ step = 1
  /\ status = "run"
  /\ img = NewBootimg
  /\ out = NoOut
  /\ io = <<>>
  /\ pend = NoPend
  /\ chained = FALSE
  /\ lay = LayIdle
  /\ cfg = CfgIdle

\* abort_perror, abort_printf: exit() with nothing written since the last flush
Abort(kind) ==
  /\ status' = kind
  /\ UNCHANGED <<cmd, step, disk, disk0, args, out, pend, chained, lay, cfg>>

\* main, case create: the kernel_fname test and check_if_block_device, which
\* leaves the object alone for a target that is no block device
CheckIfBlockDevice ==
  /\ At("check_if_block_device")
  /\ IF ~args.kernel.given
       THEN status' = "usage" /\ step' = step
       ELSE status' = status /\ step' = step + 1
  /\ UNCHANGED <<cmd, disk, disk0, args, img, out, io, pend, chained, lay, cfg>>

\* open_bootimg: "r" for extract, "r+" for update, "w" for create; "w" makes
\* the file or cuts it to length 0
OpenBootimg ==
  /\ At("open_bootimg")
  /\ IF cmd = "create"
       THEN /\ disk' = OnDisk(<<>>)
            /\ step' = step + 1
            /\ status' = status
       ELSE /\ disk' = disk
            /\ IF disk.exists
                 THEN step' = step + 1 /\ status' = status
                 ELSE step' = step /\ status' = "abort_io"
  /\ UNCHANGED <<cmd, disk0, args, img, out, io, pend, chained, lay, cfg>>

\* read_header
ReadHeader ==
  /\ At("read_header")
  /\ LET f   == disk.data
         im  == [img EXCEPT !.header = DecodeHeader(ReadAt(f, 0, HdrLen)),
                            !.size = U(Len(f)),
                            !.is_blkdev = FALSE]
     IN IF ~CanRead(f, 0, HdrLen)
          THEN Abort("abort_io") /\ UNCHANGED <<img, io>>
        ELSE /\ img' = im
             /\ io' = Append(io, Ev("read_header", 0, HdrLen))
             /\ IF CheckBootImgHeader(im) = "ok"
                  THEN /\ step' = step + 1
                       /\ UNCHANGED <<cmd, status, disk, disk0, args, out, pend, chained, lay, cfg>>
                  ELSE Abort(CheckStatus(CheckBootImgHeader(im)))

\* update_header
UpdateHeaderStep ==
  /\ At("update_header")
  /\ LET r == UpdateHeader(img, args)
     IN /\ img' = r.img
        /\ IF r.ok
             THEN /\ step' = step + 1
                  /\ UNCHANGED <<cmd, status, disk, disk0, args, out, pend, chained, lay, cfg>>
             ELSE Abort("abort_config")
  /\ UNCHANGED io

\* update_images
UpdateImagesStep ==
  /\ At("update_images")
  /\ LET r == UpdateImages(img, args, disk.data, cmd # "create")
     IN /\ img' = r.img
        /\ io' = io \o r.ev
        /\ IF r.status = "ok"
             THEN /\ step' = step + 1
                  /\ UNCHANGED <<cmd, status, disk, disk0, args, out, pend, chained, lay, cfg>>
             ELSE Abort(r.status)

\* main, case create: check_boot_img_header on the assembled header
CheckBootImgHeaderStep ==
  /\ At("check_boot_img_header")
  /\ IF CheckBootImgHeader(img) = "ok"
       THEN /\ step' = step + 1
            /\ UNCHANGED <<cmd, status, disk, disk0, args, out, pend, chained, lay, cfg>>
       ELSE Abort(CheckStatus(CheckBootImgHeader(img)))
  /\ UNCHANGED <<img, io>>

\* write_bootimg.  The fwrite calls reach the file in order and ftruncate
\* acts on the descriptor; the stream is never flushed before it, so the last
\* fwrite may still be held in the stream buffer (held) and reach the file at
\* exit.  A call whose source does not hold what it writes is undefined: the
\* process dies there, with the earlier calls flushed or not, and an over-read
\* of the padding may have put what lies behind it into the file.
WriteBootimgStep ==
  /\ At("write_bootimg")
  /\ LET calls == WriteCalls(img)
         n     == Len(calls)
         fault == FaultAt(img)
     IN IF fault >= 0
          THEN /\ status' = "crashed"
               /\ \E result \in
                      {disk.data, ApplyWrites(disk.data, calls, fault)}
                        \cup (IF img.header.page_size < HdrLen
                                THEN {WriteAt(ApplyWrites(disk.data, calls, fault), HdrLen,
                                              <<Byte(99)>>)}
                                ELSE {}) :
                    disk' = OnDisk(result)
               /\ io' = io \o WriteEvents(calls, fault + 1)
               /\ UNCHANGED <<cmd, step, disk0, args, img, out, pend, chained, lay, cfg>>
          ELSE \E held \in BOOLEAN :
               /\ disk' = OnDisk(Truncate(ApplyWrites(disk.data, calls,
                                                      IF held THEN n - 1 ELSE n),
                                          img.size))
               /\ pend' = IF held
                            THEN [any |-> TRUE, off |-> calls[n].off, data |-> calls[n].data]
                            ELSE NoPend
               /\ io' = io \o WriteEvents(calls, n) \o <<Ev("truncate", img.size, 0)>>
               /\ step' = step + 1
               /\ UNCHANGED <<cmd, status, disk0, args, img, out, chained, lay, cfg>>

\* write_bootimg_config
WriteBootimgConfig ==
  /\ At("write_bootimg_config")
  /\ out' = [out EXCEPT !.config = ConfigText(img.header)]
  /\ step' = step + 1
  /\ UNCHANGED <<cmd, status, disk, disk0, args, img, io, pend, chained, lay, cfg>>

\* extract_kernel
ExtractKernel ==
  /\ At("extract_kernel")
  /\ LET psize == img.header.page_size
         ksize == img.header.kernel_size
         at    == ExtractKernelOffset(img.header)
     IN /\ io' = Append(io, Ev("extract_kernel", at, ksize))
        /\ IF CanRead(disk.data, at, ksize)
             THEN /\ out' = [out EXCEPT !.kernel = File(ReadAt(disk.data, at, ksize))]
                  /\ step' = step + 1
                  /\ UNCHANGED <<cmd, status, disk, disk0, args, pend, chained, lay, cfg>>
             ELSE Abort("abort_io")
  /\ UNCHANGED img

\* extract_ramdisk
ExtractRamdisk ==
  /\ At("extract_ramdisk")
  /\ LET rsize   == img.header.ramdisk_size
         roffset == ExtractRamdiskOffset(img.header)
     IN /\ io' = Append(io, Ev("extract_ramdisk", roffset, rsize))
        /\ IF CanRead(disk.data, roffset, rsize)
             THEN /\ out' = [out EXCEPT !.ramdisk = File(ReadAt(disk.data, roffset, rsize))]
                  /\ step' = step + 1
                  /\ UNCHANGED <<cmd, status, disk, disk0, args, pend, chained, lay, cfg>>
             ELSE Abort("abort_io")
  /\ UNCHANGED img

\* extract_second.  The buffer is malloc(ksize): reading ssize > ksize bytes
\* into it is undefined, and the process may die there (before or after the
\* output file was made) or go on.
ExtractSecond ==
  /\ At("extract_second")
  /\ LET ssize   == img.header.second_size
         soffset == ExtractSecondOffset(img.header)
         goOn    == /\ io' = Append(io, Ev("extract_second", soffset, ssize))
                    /\ IF CanRead(disk.data, soffset, ssize)
                         THEN /\ out' = [out EXCEPT
                                           !.second = File(ReadAt(disk.data, soffset, ssize))]
                              /\ step' = step + 1
                              /\ UNCHANGED <<cmd, status, disk, disk0, args, pend, chained,
                                             lay, cfg>>
                         ELSE Abort("abort_io")
         die     == /\ io' = Append(io, Ev("extract_second", soffset, ssize))
                    /\ status' = "crashed"
                    /\ \E made \in BOOLEAN :
                         out' = IF made THEN [out EXCEPT !.second = File(<<>>)] ELSE out
                    /\ UNCHANGED <<cmd, step, disk, disk0, args, pend, chained, lay, cfg>>
     IN IF ssize = 0
          THEN /\ step' = step + 1
               /\ UNCHANGED <<cmd, status, disk, disk0, args, out, io, pend, chained, lay, cfg>>
        ELSE IF ssize > ExtractSecondMalloc(img.header) THEN goOn \/ die
        ELSE goOn
  /\ UNCHANGED img

\* return from main: exit() flushes the stream
Exit ==
  /\ At("exit")
  /\ status' = "done"
  /\ disk' = IF pend.any THEN OnDisk(WriteAt(disk.data, pend.off, pend.data)) ELSE disk
  /\ pend' = NoPend
  /\ UNCHANGED <<cmd, step, disk0, args, img, out, io, chained, lay, cfg>>

\* A second invocation: update of the image just extracted, without config,
\* either without segment files or with the files extraction wrote.
StartReassembly ==
  /\ cmd = "extract"
  /\ status = "done"
  /\ \E withFiles \in BOOLEAN :
       args' = IF withFiles
                 THEN [NoArgs EXCEPT !.kernel = out.kernel, !.ramdisk = out.ramdisk,
                                     !.second = out.second]
                 ELSE NoArgs
  /\ cmd' = "update"
  /\ step' = 1
  /\ status' = "run"
  /\ img' = NewBootimg
  /\ io' = <<>>
  /\ chained' = TRUE
  /\ UNCHANGED <<disk, disk0, out, pend, lay, cfg>>

Next ==
  \/ CheckIfBlockDevice
  \/ OpenBootimg
  \/ ReadHeader
  \/ UpdateHeaderStep
  \/ UpdateImagesStep
  \/ CheckBootImgHeaderStep
  \/ WriteBootimgStep
  \/ WriteBootimgConfig
  \/ ExtractKernel
  \/ ExtractRamdisk
  \/ ExtractSecond
  \/ Exit
  \/ StartReassembly

Spec == Init /\ [][Next]_vars

----------------------------------------------------------------------------
(* LayoutSpec: the page arithmetic on header values from both ends of the  *)
(* unsigned range.                                                         *)

LaySizes == {x \in 0..(UMOD - 1) : x <= MaxLay \/ x >= UMOD - 1 - MaxLay}

\* the variables of Spec, at rest
MainIdle ==
  /\ cmd = "none"
  /\ step = 0
  /\ status = "idle"
  /\ disk = Absent
  /\ disk0 = Absent
  /\ args = NoArgs
  /\ img = NewBootimg
  /\ out = NoOut
  /\ io = <<>>
  /\ pend = NoPend
  /\ chained = FALSE

MainVars == <<cmd, step, status, disk, disk0, args, img, out, io, pend, chained>>

LayoutInit ==
  /\ MainIdle
  /\ cfg = CfgIdle
  /\ \E k \in LaySizes, r \in LaySizes, s \in LaySizes, ps \in LaySizes, avail \in LaySizes :
       lay = [phase |-> "input", h |-> Hdr(TRUE, k, r, s, ps), size |-> avail]

\* check_boot_img_header on an object with this header and this size
LayoutCheck ==
  /\ lay.phase = "input"
  /\ lay' = [phase    |-> "checked",
             h        |-> lay.h,
             size     |-> lay.size,
             accepted |-> CheckBootImgHeader([NewBootimg EXCEPT !.header = lay.h,
                                                               !.size = lay.size]) = "ok"]
  /\ UNCHANGED <<MainVars, cfg>>

\* the offsets extraction reads at and write_bootimg writes at, and the
\* offsets update_images carries over from, for a header with a page size
LayoutOffsets ==
  /\ lay.phase = "input"
  /\ lay.h.page_size # 0
  /\ lay' = [phase |-> "offsets",
             h     |-> lay.h,
             size  |-> lay.size,
             xk    |-> ExtractKernelOffset(lay.h),
             xr    |-> ExtractRamdiskOffset(lay.h),
             xs    |-> ExtractSecondOffset(lay.h),
             wk    |-> WriteKernelOffset(lay.h),
             wr    |-> WriteRamdiskOffset(lay.h),
             ws    |-> WriteSecondOffset(lay.h),
             cr    |-> CarryRoffset(lay.h),
             cs    |-> CarrySoffset(lay.h)]
  /\ UNCHANGED <<MainVars, cfg>>

\* the total size of a header and of the header with one segment a byte larger
LayoutGrow ==
  /\ lay.phase = "input"
  /\ lay.h.page_size # 0
  /\ \E seg \in {"kernel", "ramdisk", "second"} :
       LET g == IF seg = "kernel" THEN [lay.h EXCEPT !.kernel_size = @ + 1]
                ELSE IF seg = "ramdisk" THEN [lay.h EXCEPT !.ramdisk_size = @ + 1]
                ELSE [lay.h EXCEPT !.second_size = @ + 1]
       IN /\ g.kernel_size < UMOD
          /\ g.ramdisk_size < UMOD
          /\ g.second_size < UMOD
          /\ lay' = [phase  |-> "grown",
                     h      |-> lay.h,
                     size   |-> lay.size,
                     g      |-> g,
                     check0 |-> CheckTotalSize(lay.h),
                     check1 |-> CheckTotalSize(g),
                     upd0   |-> UpdateTotalSize(lay.h),
                     upd1   |-> UpdateTotalSize(g)]
  /\ UNCHANGED <<MainVars, cfg>>

LayoutNext ==
  \/ LayoutCheck
  \/ LayoutOffsets
  \/ LayoutGrow

LayoutSpec == LayoutInit /\ [][LayoutNext]_vars

----------------------------------------------------------------------------
(* ConfigSpec: update_header_entry on config lines.                        *)

ExactKeys ==
  {S_cmdline, S_bootsize, S_pagesize, S_kerneladdr, S_ramdiskaddr, S_secondaddr, S_tagsaddr}

\* tokens: the keys, each key with a character more, each key with its last
\* character missing, no token, a token that is no key
ConfigTokens ==
  ExactKeys
    \cup {k \o <<"x">> : k \in ExactKeys}
    \cup {SubSeq(k, 1, Len(k) - 1) : k \in ExactKeys}
    \cup {<<>>, <<"f", "o", "o">>}

ConfigLines ==
  {t \o sep \o v \o <<NL>> :
     t \in ConfigTokens,
     sep \in {<<"=">>, <<" ", "=", " ">>, <<" ">>},
     v \in {<<"2">>, <<"0", "x", "3">>, <<"q">>}}
    \cup {<<NL>>, <<" ", NL>>, <<"\t", NL>>}
    \cup {<<" ">> \o S_pagesize \o <<"\t", "=", "3">>,
          S_cmdline \o <<"=">> \o [i \in 1..BootArgsSize |-> "a"] \o <<NL>>,
          S_cmdline \o <<"=">> \o [i \in 1..(BootArgsSize - 1) |-> "a"] \o <<NL>>,
          S_bootsize \o <<"=", "-", "1", NL>>}

ConfigInit ==
  /\ MainIdle
  /\ lay = LayIdle
  /\ \E blk \in BOOLEAN :
       cfg = [phase |-> "run", n |-> 0, line |-> <<>>,
              before |-> [NewBootimg EXCEPT !.is_blkdev = blk, !.size = IF blk THEN 2 ELSE 0],
              img    |-> [NewBootimg EXCEPT !.is_blkdev = blk, !.size = IF blk THEN 2 ELSE 0]]

\* one pass of a getline loop of update_header: the next line goes to
\* update_header_entry, which returns or aborts
ConfigEntry ==
  /\ cfg.phase = "run"
  /\ cfg.n < MaxLines
  /\ \E line \in ConfigLines :
       cfg' = [phase  |-> IF UpdateHeaderEntry(cfg.img, line).ok THEN "run" ELSE "aborted",
               n      |-> cfg.n + 1,
               line   |-> line,
               before |-> cfg.img,
               img    |-> UpdateHeaderEntry(cfg.img, line).img]
  /\ UNCHANGED <<MainVars, lay>>

ConfigNext == ConfigEntry

ConfigSpec == ConfigInit /\ [][ConfigNext]_vars

----------------------------------------------------------------------------
(* What the properties below speak of.                                     *)

\* The layout of the format in the integers, without wraparound:
\* ceil(size / page_size) pages per segment after one header page.
CeilDiv(a, b) == (a + b - 1) \div b
LayoutKernelOffset(h) == h.page_size
LayoutRamdiskOffset(h) == (1 + CeilDiv(h.kernel_size, h.page_size)) * h.page_size
LayoutSecondOffset(h) ==
  (1 + CeilDiv(h.kernel_size, h.page_size) + CeilDiv(h.ramdisk_size, h.page_size)) * h.page_size
LayoutTotal(h) ==
  (1 + CeilDiv(h.kernel_size, h.page_size) + CeilDiv(h.ramdisk_size, h.page_size)
     + CeilDiv(h.second_size, h.page_size)) * h.page_size

\* the header an image file holds
FileHeader(f) == IF Len(f) >= HdrLen THEN DecodeHeader(SubSeq(f, 1, HdrLen)) ELSE ZeroHdr

\* the n cells of f at offset off; a cell behind the end of the file is Missing
Missing == [hd |-> ZeroHdr, b |-> 0 - 100]
Cells(f, off, n) == [i \in 1..n |-> IF off + i <= Len(f) THEN f[off + i] ELSE Missing]

\* an image the format accepts: magic, a kernel, a page size, a layout that
\* fits the file
ValidImage(f) ==
  /\ FileHeader(f).magic
  /\ FileHeader(f).kernel_size # 0
  /\ FileHeader(f).page_size # 0
  /\ LayoutTotal(FileHeader(f)) <= Len(f)

\* a valid image that ends with its layout and is zero outside header and segments
InSegment(h, i) ==
  \/ i <= HdrLen
  \/ i > LayoutKernelOffset(h) /\ i <= LayoutKernelOffset(h) + h.kernel_size
  \/ i > LayoutRamdiskOffset(h) /\ i <= LayoutRamdiskOffset(h) + h.ramdisk_size
  \/ i > LayoutSecondOffset(h) /\ i <= LayoutSecondOffset(h) + h.second_size

ExactImage(f) ==
  /\ ValidImage(f)
  /\ Len(f) = LayoutTotal(FileHeader(f))
  /\ \A i \in 1..Len(f) : InSegment(FileHeader(f), i) \/ f[i] = Zero

ReadOps == {"read_header", "carry_ramdisk", "carry_second"}
ResolveOps == {"load_kernel", "load_ramdisk", "load_second", "carry_ramdisk", "carry_second"}
WriteOps ==
  {"write_header", "write_pad", "write_kernel", "write_ramdisk", "write_second", "truncate"}

\* the header's arithmetic stays inside the unsigned range
NoWrap(h) ==
  /\ h.kernel_size + h.page_size - 1 < UMOD
  /\ h.ramdisk_size + h.page_size - 1 < UMOD
  /\ h.second_size + h.page_size - 1 < UMOD
  /\ h.kernel_size + h.ramdisk_size + h.page_size - 1 < UMOD
  /\ LayoutTotal(h) < UMOD

----------------------------------------------------------------------------
(* The claims.                                                             *)

\* C1: an update or create that fails because the computed total size
\* exceeds the target's declared size leaves the destination image as it was
\* before the invocation: same length, same bytes.
C1_OversizeLeavesImage ==
  (/\ cmd \in {"update", "create"}
   /\ status \in {"abort_oversize", "abort_capacity"}
   /\ disk0.exists)
    => disk = disk0

\* C2: after a successful update, every segment of non-zero size that no
\* file replaced holds, at the layout offset of the written header, the bytes
\* it held in the source image at the source image's layout offset.
C2_UnreplacedSegmentsKept ==
  (cmd = "update" /\ status = "done") =>
    LET old == FileHeader(disk0.data)
        new == FileHeader(disk.data)
    IN /\ (~args.kernel.given /\ new.kernel_size # 0) =>
            Cells(disk.data, LayoutKernelOffset(new), new.kernel_size)
              = Cells(disk0.data, LayoutKernelOffset(old), old.kernel_size)
       /\ (~args.ramdisk.given /\ new.ramdisk_size # 0) =>
            Cells(disk.data, LayoutRamdiskOffset(new), new.ramdisk_size)
              = Cells(disk0.data, LayoutRamdiskOffset(old), old.ramdisk_size)
       /\ (~args.second.given /\ new.second_size # 0) =>
            Cells(disk.data, LayoutSecondOffset(new), new.second_size)
              = Cells(disk0.data, LayoutSecondOffset(old), old.second_size)

\* C3: on a valid image whose ramdisk size is 0, extraction runs to its end
\* and emits the config, the kernel and the second stage if there is one, and
\* an update that replaces only the kernel is written with ramdisk size 0;
\* the zero ramdisk size aborts neither.
C3_ZeroRamdiskNotFatal ==
  (/\ disk0.exists
   /\ ValidImage(disk0.data)
   /\ FileHeader(disk0.data).ramdisk_size = 0)
    => /\ cmd = "extract" => status \in {"run", "done"}
       /\ (cmd = "extract" /\ status = "done") =>
            /\ out.config # <<>>
            /\ out.kernel.given
            /\ FileHeader(disk0.data).second_size # 0 => out.second.given
       /\ (/\ cmd = "update"
           /\ args.kernel.given /\ args.kernel.data # <<>>
           /\ ~args.ramdisk.given /\ ~args.second.given
           /\ args.config_file = <<>> /\ args.config_args = <<>>)
            => /\ status \in {"run", "done", "abort_oversize"}
               /\ status = "done" => FileHeader(disk.data).ramdisk_size = 0

\* C4: after a successful update or create the image file is exactly as long
\* as the total size of the written header, and the write pass wrote nothing
\* at or behind that total.
C4_LengthIsTotal ==
  (cmd \in {"update", "create"} /\ status = "done") =>
    /\ Len(disk.data) = LayoutTotal(FileHeader(disk.data))
    /\ \A i \in 1..Len(io) :
         (io[i].op \in WriteOps /\ io[i].op # "truncate") =>
           io[i].off + io[i].len <= LayoutTotal(FileHeader(disk.data))

\* C5: for every header with page_size > 0 (here: one whose arithmetic stays
\* inside the unsigned range), extraction reads each segment that is there at
\* the offset write_bootimg writes it at, and both are the layout formula's
\* offset.
C5_OffsetsAgree ==
  (lay.phase = "offsets" /\ NoWrap(lay.h)) =>
    /\ lay.xk = lay.wk /\ lay.xk = LayoutKernelOffset(lay.h)
    /\ lay.h.ramdisk_size # 0 =>
         (lay.xr = lay.wr /\ lay.xr = LayoutRamdiskOffset(lay.h))
    /\ lay.h.second_size # 0 =>
         (lay.xs = lay.ws /\ lay.xs = LayoutSecondOffset(lay.h))

\* C6: extracting an exact image and then updating it without config, with no
\* segment files or with the files extraction wrote, succeeds and leaves the
\* image byte for byte as it was.
C6_ExtractReassembleIdentity ==
  (disk0.exists /\ ExactImage(disk0.data)) =>
    /\ cmd = "extract" => status \in {"run", "done"}
    /\ chained => /\ status \in {"run", "done"}
                  /\ status = "done" => disk = disk0

\* C7: for every header with page_size > 0 the total size the code computes
\* is a multiple of page_size, and it grows with every segment: a segment a
\* byte larger never gives a smaller total, and gives a larger one when the
\* segment gains a page.
GainsPage(h, g) ==
  \/ CeilDiv(g.kernel_size, h.page_size) > CeilDiv(h.kernel_size, h.page_size)
  \/ CeilDiv(g.ramdisk_size, h.page_size) > CeilDiv(h.ramdisk_size, h.page_size)
  \/ CeilDiv(g.second_size, h.page_size) > CeilDiv(h.second_size, h.page_size)

C7_TotalAlignedAndGrowing ==
  lay.phase = "grown" =>
    /\ lay.check0 % lay.h.page_size = 0
    /\ lay.upd0 % lay.h.page_size = 0
    /\ lay.check1 >= lay.check0
    /\ lay.upd1 >= lay.upd0
    /\ GainsPage(lay.h, lay.g) => (lay.check1 > lay.check0 /\ lay.upd1 > lay.upd0)

\* C8: the capacity check accepts a header with page_size > 0 only if the
\* true page-aligned total page_size*(1+ceil(k/p)+ceil(r/p)+ceil(s/p)),
\* computed without wraparound, is at most the available size, and only if
\* the header page is at least as large as the header record.
C8_CapacityCheckSound ==
  (lay.phase = "checked" /\ lay.accepted /\ lay.h.page_size > 0) =>
    /\ LayoutTotal(lay.h) <= lay.size
    /\ lay.h.page_size >= HdrLen

\* C9: a line is applied if and only if it is `key = value` with one of the
\* seven keys; a blank line is ignored and changes nothing; every other line
\* aborts.
IsBlankLine(line) == \A i \in 1..Len(line) : line[i] \in Blanks \cup {NL}

PlainKeys == {S_pagesize, S_kerneladdr, S_ramdiskaddr, S_secondaddr, S_tagsaddr}

C9_ExactlySevenKeys ==
  (cfg.phase # "idle" /\ cfg.n >= 1) =>
    /\ IsBlankLine(cfg.line) => (cfg.phase = "run" /\ cfg.img = cfg.before)
    /\ (~IsBlankLine(cfg.line) /\ cfg.phase = "run") =>
         (SplitEntry(cfg.line).eq /\ SplitEntry(cfg.line).token \in ExactKeys)
    /\ (SplitEntry(cfg.line).eq /\ SplitEntry(cfg.line).token \in PlainKeys) =>
         cfg.phase = "run"

\* C10: in the update path every read of the source image (the header read,
\* each carry-over read) comes before the first write to the image stream;
\* the validation of the layout against the declared size comes after every
\* segment is resolved and before the first write, and no write happens
\* without it.
C10_ReadsThenValidateThenWrite ==
  cmd = "update" =>
    /\ \A i \in 1..Len(io) : \A j \in 1..Len(io) :
         /\ (io[i].op \in ReadOps /\ io[j].op \in WriteOps) => i < j
         /\ (io[i].op \in ResolveOps /\ io[j].op = "validate") => i < j
         /\ (io[i].op = "validate" /\ io[j].op \in WriteOps) => i < j
    /\ (\E j \in 1..Len(io) : io[j].op \in WriteOps) =>
         (\E i \in 1..Len(io) : io[i].op = "validate")

\* an update that carried the ramdisk over, replaced the kernel and wrote
C10_Witness ==
  /\ cmd = "update"
  /\ status = "done"
  /\ \E i \in 1..Len(io) : io[i].op = "carry_ramdisk"
  /\ \E i \in 1..Len(io) : io[i].op = "load_kernel"
  /\ \E i \in 1..Len(io) : io[i].op = "write_kernel"

\* C11: every transfer of n segment bytes uses a buffer that is not NULL and
\* was allocated with at least n bytes: the segment a file or the image was
\* read into, the segment write_bootimg writes (the second stage also in an
\* update without replacement files), the segment extraction reads.
C11_BuffersHoldTransfers ==
  \A i \in 1..Len(io) :
    /\ io[i].op \in {"load_kernel"} =>
         (status = "run" => (img.kernel.ptr /\ img.kernel.cap >= io[i].len))
    /\ io[i].op \in {"load_ramdisk", "carry_ramdisk"} =>
         (status = "run" => (img.ramdisk.ptr /\ img.ramdisk.cap >= io[i].len))
    /\ io[i].op \in {"load_second", "carry_second"} =>
         (status = "run" => (img.second.ptr /\ img.second.cap >= io[i].len))
    /\ io[i].op = "write_kernel" => CanWriteFrom(img.kernel, img.header.kernel_size)
    /\ io[i].op = "write_ramdisk" => CanWriteFrom(img.ramdisk, img.header.ramdisk_size)
    /\ io[i].op = "write_second" => CanWriteFrom(img.second, img.header.second_size)
    /\ io[i].op = "extract_kernel" =>
         ExtractKernelMalloc(img.header) >= img.header.kernel_size
    /\ io[i].op = "extract_ramdisk" =>
         ExtractRamdiskMalloc(img.header) >= img.header.ramdisk_size
    /\ io[i].op = "extract_second" =>
         ExtractSecondMalloc(img.header) >= img.header.second_size

============================================================================
